---- MODULE Spec2Model ----
(***************************************************************************)
(* Excel-Copilot: the Session Guard (safe_excel_operation) and the six     *)
(* xlwings tools of excel_agnet.py / backend_service.py, and the           *)
(* instruction generators and tool-output selection of                      *)
(* backend_service_llamaindex.py.py.                                        *)
(*                                                                          *)
(* Texts built by f-strings are tuples of their fragments, so that two     *)
(* results are equal exactly when the code's strings are built from the    *)
(* same pieces.                                                             *)
(***************************************************************************)
EXTENDS Integers, Sequences, FiniteSets, TLC

VARIABLES
    pc,          \* position of the running invocation of safe_excel_operation
    inv,         \* the tool call: variant, tool, and the tool's keyword arguments
    app,         \* local `app`: TRUE once xw.App() returned
    book,        \* local `book`: None, or the in-memory workbook app.books.open returned
    bookOpen,    \* the document this invocation opened is still open in the application
    exc,         \* the exception travelling to the except clauses
    opResult,    \* what func(book=book, **kwargs) returned
    retval,      \* the value of the return statement
    events,      \* calls on the book made by this invocation, in order
    writes,      \* assignments to sheet.range(..).value / clear_contents() attempted by func
    file,        \* the workbook stored at EXCEL_FILE_PATH
    pathExists,  \* os.path.exists(EXCEL_FILE_PATH) during the running invocation
    appsHeld,    \* Excel application processes started by an invocation and not quit
    dpc,         \* position of handle_excel_command (delegated variant)
    sources,     \* response_obj.sources
    response,    \* response_obj.response
    instruction, \* the instruction handle_excel_command returns
    prev,        \* the call that ran before the running one, and what it returned
    creq,        \* per HTTP request of backend_service: position and locals of its handler
    handles,     \* the documents opened so far: who opened, used and closed each
    cli          \* the main loop of excel_agnet.py: position, line read, counters

gvars == <<pc, inv, app, book, bookOpen, exc, opResult, retval, events, writes,
           file, pathExists, appsHeld>>
dvars == <<dpc, sources, response, instruction>>
lvars == <<pc, inv, app, book, bookOpen, exc, opResult, retval, events, writes, pathExists>>
cvars == <<creq, handles>>
xvars == <<prev, creq, handles, cli>>
vars == <<pc, inv, app, book, bookOpen, exc, opResult, retval, events, writes,
          file, pathExists, appsHeld, dpc, sources, response, instruction,
          prev, creq, handles, cli>>

(***************************************************************************)
(* Bounds                                                                   *)
(***************************************************************************)
MaxApps == 2      \* Excel processes left running before the model stops calling
MaxRow == 3       \* rows of each sheet that are modelled
MaxCol == 3       \* columns of each sheet that are modelled
MaxSources == 3   \* tool calls the agent makes in one chat
MaxLines == 3     \* lines the main loop of excel_agnet.py reads

(***************************************************************************)
(* Python values                                                            *)
(***************************************************************************)
None == "None"                 \* the value of an empty cell
PyNone == [t |-> "None"]       \* a local that holds None
EXCEL_FILE_PATH == "test.xlsx"

\* The sheets of test.xlsx, in workbook order, and the cells of each.
WorkbookSheets == <<"Sheet1", "Sheet2">>
Coords == (1..MaxRow) \X (1..MaxCol)
EmptyCells == [s \in {WorkbookSheets[i] : i \in DOMAIN WorkbookSheets} |-> [c \in Coords |-> None]]
NewWorkbook == [sheets |-> WorkbookSheets, cells |-> EmptyCells]

\* [s.name for s in book.sheets]
SheetNames(b) == {b.sheets[i] : i \in DOMAIN b.sheets}

(***************************************************************************)
(* Inputs of the tools                                                      *)
(***************************************************************************)
SheetArgs == {"Sheet1", "Ghost"}            \* "Ghost" is no sheet of the workbook
AddressArgs == {"A1", "B2", "A1:B2", "A0:"} \* "A0:" is no address
ValueArgs == {"Done"}
NotJson == "not valid json"
JsonObject == "{\"a\": 1}"
JsonFlatList == "[\"a\", \"b\"]"
JsonRect == "[[\"a\", \"b\"], [\"c\", \"d\"]]"
JsonRagged == "[[\"a\", \"b\"], [\"c\"]]"
JsonRow == "[[\"a\", \"b\"]]"
PayloadArgs == {NotJson, JsonObject, JsonFlatList, JsonRect, JsonRagged}
NoArg == "-"

\* json.loads on the payloads above: ok = FALSE is json.JSONDecodeError.
JStr(s) == [t |-> "str", s |-> s]
JList(items) == [t |-> "list", items |-> items]
json_loads(s) ==
    CASE s = JsonObject -> [ok |-> TRUE, data |-> [t |-> "dict"]]
      [] s = JsonFlatList -> [ok |-> TRUE, data |-> JList(<<JStr("a"), JStr("b")>>)]
      [] s = JsonRect -> [ok |-> TRUE, data |-> JList(<<JList(<<JStr("a"), JStr("b")>>),
                                                       JList(<<JStr("c"), JStr("d")>>)>>)]
      [] s = JsonRagged -> [ok |-> TRUE, data |-> JList(<<JList(<<JStr("a"), JStr("b")>>),
                                                         JList(<<JStr("c")>>)>>)]
      [] s = JsonRow -> [ok |-> TRUE, data |-> JList(<<JList(<<JStr("a"), JStr("b")>>)>>)]
      [] OTHER -> [ok |-> FALSE]

\* isinstance(data, list) and all(isinstance(row, list) for row in data)
IsListOfLists(data) ==
    /\ data.t = "list"
    /\ \A i \in DOMAIN data.items : data.items[i].t = "list"

\* The rows of a list of lists of strings, as the cell values they are written as.
PlainRows(data) ==
    [i \in DOMAIN data.items |->
        [j \in DOMAIN data.items[i].items |-> data.items[i].items[j].s]]

\* All rows of a block have the length of the first.
IsRectangular(rows) == \A i \in DOMAIN rows : Len(rows[i]) = Len(rows[1])

(***************************************************************************)
(* xlwings: sheet.range(address)                                            *)
(***************************************************************************)
XlError == "<xlwings exception>"

\* sheet.range(address): the block of cells an address names; ok = FALSE
\* is the exception xlwings raises for text that is no address.
ParseAddress(address) ==
    CASE address = "A1" -> [ok |-> TRUE, r1 |-> 1, c1 |-> 1, r2 |-> 1, c2 |-> 1]
      [] address = "B2" -> [ok |-> TRUE, r1 |-> 2, c1 |-> 2, r2 |-> 2, c2 |-> 2]
      [] address = "A1:B2" -> [ok |-> TRUE, r1 |-> 1, c1 |-> 1, r2 |-> 2, c2 |-> 2]
      [] address = "A1:B1" -> [ok |-> TRUE, r1 |-> 1, c1 |-> 1, r2 |-> 1, c2 |-> 2]
      [] OTHER -> [ok |-> FALSE]

RangeCoords(rg) == {co \in Coords : /\ rg.r1 <= co[1] /\ co[1] <= rg.r2
                                    /\ rg.c1 <= co[2] /\ co[2] <= rg.c2}

\* What a cell holds after Range.value = <str>: Excel reads the text as if it
\* were typed into the cell. Text that spells a number becomes that number
\* (xlwings hands numbers back as float), empty text leaves the cell empty,
\* other text is kept. A float is written here as Python prints it.
Floats == {"42.0"}
XlStore(value) ==
    CASE value = "" -> None
      [] value = "42" -> "42.0"
      [] OTHER -> value

\* Range.value (get) with the default ndim: a scalar for one cell, a flat
\* list for a block of one row or one column, a list of lists otherwise.
RangeValue(b, sheet_name, rg) ==
    IF rg.r1 = rg.r2 /\ rg.c1 = rg.c2
    THEN [t |-> "scalar", v |-> b.cells[sheet_name][<<rg.r1, rg.c1>>]]
    ELSE IF rg.r1 = rg.r2
    THEN [t |-> "list",
          v |-> [j \in 1..(rg.c2 - rg.c1 + 1) |->
                   b.cells[sheet_name][<<rg.r1, rg.c1 + j - 1>>]]]
    ELSE IF rg.c1 = rg.c2
    THEN [t |-> "list",
          v |-> [i \in 1..(rg.r2 - rg.r1 + 1) |->
                   b.cells[sheet_name][<<rg.r1 + i - 1, rg.c1>>]]]
    ELSE [t |-> "rows",
          v |-> [i \in 1..(rg.r2 - rg.r1 + 1) |->
                   [j \in 1..(rg.c2 - rg.c1 + 1) |->
                      b.cells[sheet_name][<<rg.r1 + i - 1, rg.c1 + j - 1>>]]]]

\* Range.value = scalar: every cell of the range takes the value.
SetScalar(b, sheet_name, rg, value) ==
    [b EXCEPT !.cells[sheet_name] =
        [co \in Coords |-> IF co \in RangeCoords(rg) THEN XlStore(value) ELSE @[co]]]

\* Range.value = rows: the block is written with its first cell at the top
\* left cell of the range, outer index down the rows, inner across the columns.
SetBlock(b, sheet_name, rg, rows) ==
    [b EXCEPT !.cells[sheet_name] =
        [co \in Coords |->
            LET i == co[1] - rg.r1 + 1
                j == co[2] - rg.c1 + 1
            IN IF i \in DOMAIN rows /\ j \in DOMAIN rows[i]
               THEN XlStore(rows[i][j]) ELSE @[co]]]

\* Mutant: Range.delete(shift='up') in place of clear_contents(): the cells
\* below the range move up into it.
ClearContentsShiftsUp(b, sheet_name, rg) ==
    [b EXCEPT !.cells[sheet_name] =
        [co \in Coords |->
            LET below == <<co[1] + (rg.r2 - rg.r1 + 1), co[2]>> IN
            IF co[1] >= rg.r1 /\ rg.c1 <= co[2] /\ co[2] <= rg.c2
            THEN (IF below \in Coords THEN @[below] ELSE None)
            ELSE @[co]]]

\* Range.clear_contents(): values go, the rest of the cell stays.
ClearContents(b, sheet_name, rg) == SetScalar(b, sheet_name, rg, None)

(***************************************************************************)
(* str() of what Range.value returns                                        *)
(***************************************************************************)
RECURSIVE JoinComma(_)
JoinComma(parts) ==
    IF Len(parts) = 0 THEN <<>>
    ELSE IF Len(parts) = 1 THEN parts[1]
    ELSE parts[1] \o <<", ">> \o JoinComma(Tail(parts))

ReprCell(v) ==
    IF v = None THEN <<"None">>
    ELSE IF v \in Floats THEN <<v>>
    ELSE <<"'", v, "'">>
ReprList(parts) == <<"[">> \o JoinComma(parts) \o <<"]">>
ReprRow(row) == ReprList([j \in DOMAIN row |-> ReprCell(row[j])])
ReprRows(rows) == ReprList([i \in DOMAIN rows |-> ReprRow(rows[i])])

PyStr(val) ==
    IF val.t = "scalar" THEN <<val.v>>
    ELSE IF val.t = "list" THEN ReprRow(val.v)
    ELSE ReprRows(val.v)

(***************************************************************************)
(* The tools' inner functions. Each returns the text it returns in the     *)
(* code, the workbook as it leaves it, and how many writes it attempted.   *)
(***************************************************************************)
OpReturn(res, b, n) == [res |-> res, book |-> b, writes |-> n]

SheetNotFound(sheet_name) == <<"Error: Sheet '", sheet_name, "' not found.">>

\* Mutant: the address is resolved before the sheet is looked up.
_read_cell_address_first(b, sheet_name, cell_address) ==
    LET rg == ParseAddress(cell_address) IN
    IF ~rg.ok
    THEN OpReturn(<<"Error reading cell ", cell_address, " on sheet ", sheet_name,
                    ": ", XlError>>, b, 0)
    ELSE IF sheet_name \notin SheetNames(b)
    THEN OpReturn(SheetNotFound(sheet_name), b, 0)
    ELSE LET value == RangeValue(b, sheet_name, rg) IN
         IF value.t = "scalar" /\ value.v = None
         THEN OpReturn(<<"">>, b, 0)
         ELSE OpReturn(PyStr(value), b, 0)

_read_cell(b, sheet_name, cell_address) ==
    IF sheet_name \notin SheetNames(b)
    THEN OpReturn(SheetNotFound(sheet_name), b, 0)
    ELSE LET rg == ParseAddress(cell_address) IN
         IF ~rg.ok
         THEN OpReturn(<<"Error reading cell ", cell_address, " on sheet ", sheet_name,
                         ": ", XlError>>, b, 0)
         ELSE LET value == RangeValue(b, sheet_name, rg) IN
              IF value.t = "scalar" /\ value.v = None
              THEN OpReturn(<<"">>, b, 0)
              ELSE OpReturn(PyStr(value), b, 0)

_write_cell(b, sheet_name, cell_address, value) ==
    IF sheet_name \notin SheetNames(b)
    THEN OpReturn(SheetNotFound(sheet_name), b, 0)
    ELSE LET rg == ParseAddress(cell_address) IN
         IF ~rg.ok
         THEN OpReturn(<<"Error writing to cell ", cell_address, " on sheet ", sheet_name,
                         ": ", XlError>>, b, 0)
         ELSE OpReturn(<<"Successfully wrote '", value, "' to cell ", cell_address,
                         " on sheet ", sheet_name, ".">>,
                       SetScalar(b, sheet_name, rg, value), 1)

\* Mutant: the range is cut, not copied: its content is cleared once read.
_read_range_clears(b, sheet_name, range_address) ==
    IF sheet_name \notin SheetNames(b)
    THEN OpReturn(SheetNotFound(sheet_name), b, 0)
    ELSE LET rg == ParseAddress(range_address) IN
         IF ~rg.ok
         THEN OpReturn(<<"Error reading range ", range_address, " on sheet ", sheet_name,
                         ": ", XlError>>, b, 0)
         ELSE OpReturn(PyStr(RangeValue(b, sheet_name, rg)),
                       ClearContents(b, sheet_name, rg), 1)

\* Mutant: every failure of the tool is reported as the missing sheet.
_read_range_one_message(b, sheet_name, range_address) ==
    IF sheet_name \notin SheetNames(b) \/ ~ParseAddress(range_address).ok
    THEN OpReturn(SheetNotFound(sheet_name), b, 0)
    ELSE OpReturn(PyStr(RangeValue(b, sheet_name, ParseAddress(range_address))), b, 0)

_read_range(b, sheet_name, range_address) ==
    IF sheet_name \notin SheetNames(b)
    THEN OpReturn(SheetNotFound(sheet_name), b, 0)
    ELSE LET rg == ParseAddress(range_address) IN
         IF ~rg.ok
         THEN OpReturn(<<"Error reading range ", range_address, " on sheet ", sheet_name,
                         ": ", XlError>>, b, 0)
         ELSE OpReturn(PyStr(RangeValue(b, sheet_name, rg)), b, 0)

NotListOfListsText ==
    <<"Error: The 'values_json' argument must be a valid JSON string representing a list of lists.">>
NotJsonText == <<"Error: The 'values_json' argument is not a valid JSON string.">>
WriteRangeError(sheet_name, start_cell_address) ==
    <<"An Excel error occurred during write range to ", start_cell_address, " on ",
      sheet_name, ": ", XlError>>

\* xl_ragged: what Range.value = data does with rows of unequal length, which
\* the code leaves to xlwings: "raise" (nothing is written) or "write".
XlRaggedOutcomes == {"raise", "write"}

\* Mutant: the list-of-lists check comes after the assignment to the range.
_write_range_checks_late(b, sheet_name, start_cell_address, values_json, xl_ragged) ==
    LET parsed == json_loads(values_json) IN
    IF ~parsed.ok THEN OpReturn(NotJsonText, b, 0)
    ELSE IF sheet_name \notin SheetNames(b)
    THEN OpReturn(SheetNotFound(sheet_name), b, 0)
    ELSE LET rg == ParseAddress(start_cell_address) IN
         IF ~rg.ok
         THEN OpReturn(WriteRangeError(sheet_name, start_cell_address), b, 0)
         ELSE IF ~IsListOfLists(parsed.data)
         THEN OpReturn(NotListOfListsText, b, 1)
         ELSE IF ~IsRectangular(PlainRows(parsed.data)) /\ xl_ragged = "raise"
         THEN OpReturn(WriteRangeError(sheet_name, start_cell_address), b, 1)
         ELSE OpReturn(<<"Successfully wrote data starting at cell ", start_cell_address,
                         " on sheet ", sheet_name, ".">>,
                       SetBlock(b, sheet_name, rg, PlainRows(parsed.data)), 1)

_write_range(b, sheet_name, start_cell_address, values_json, xl_ragged) ==
    LET parsed == json_loads(values_json) IN
    IF ~parsed.ok THEN OpReturn(NotJsonText, b, 0)
    ELSE IF ~IsListOfLists(parsed.data) THEN OpReturn(NotListOfListsText, b, 0)
    ELSE IF sheet_name \notin SheetNames(b)
    THEN OpReturn(SheetNotFound(sheet_name), b, 0)
    ELSE LET rg == ParseAddress(start_cell_address)
             rows == PlainRows(parsed.data) IN
         IF ~rg.ok
         THEN OpReturn(WriteRangeError(sheet_name, start_cell_address), b, 0)
         ELSE IF ~IsRectangular(rows) /\ xl_ragged = "raise"
         THEN OpReturn(WriteRangeError(sheet_name, start_cell_address), b, 1)
         ELSE OpReturn(<<"Successfully wrote data starting at cell ", start_cell_address,
                         " on sheet ", sheet_name, ".">>,
                       SetBlock(b, sheet_name, rg, rows), 1)

\* Mutant: sorted(sheet_names) is joined.
_get_sheet_names_sorted(b) ==
    LET names == SelectSeq(WorkbookSheets, LAMBDA n : n \in SheetNames(b)) IN
    IF Len(names) > 0
    THEN OpReturn(JoinComma([i \in DOMAIN names |-> <<names[i]>>]), b, 0)
    ELSE OpReturn(<<"No sheets found.">>, b, 0)

_get_sheet_names(b) ==
    IF Len(b.sheets) > 0
    THEN OpReturn(JoinComma([i \in DOMAIN b.sheets |-> <<b.sheets[i]>>]), b, 0)
    ELSE OpReturn(<<"No sheets found.">>, b, 0)

_clear_range(b, sheet_name, range_address) ==
    IF sheet_name \notin SheetNames(b)
    THEN OpReturn(SheetNotFound(sheet_name), b, 0)
    ELSE LET rg == ParseAddress(range_address) IN
         IF ~rg.ok
         THEN OpReturn(<<"Error clearing range ", range_address, " on sheet ", sheet_name,
                         ": ", XlError>>, b, 0)
         ELSE OpReturn(<<"Successfully cleared content from range ", range_address,
                         " on sheet ", sheet_name, ".">>,
                       ClearContents(b, sheet_name, rg), 1)

\* A func that is not one of the tools: it writes one cell and then raises,
\* which none of the tools does (each catches Exception itself).
FaultText == <<"<fault injected>">>
_fault_injected(b) ==
    SetScalar(b, WorkbookSheets[1], ParseAddress("A1"), "Done")

Tools == {"read_cell_value", "write_cell_value", "read_range_values",
          "write_range_values", "get_sheet_names", "clear_range_content"}
FaultTool == "fault_injected"
SheetTools == Tools \ {"get_sheet_names"}

\* func(book=book, **kwargs_from_tool) for the tool call c.
CallFunc(b, c, xl_ragged) ==
    CASE c.tool = "read_cell_value" -> _read_cell(b, c.sheet_name, c.address)
      [] c.tool = "write_cell_value" -> _write_cell(b, c.sheet_name, c.address, c.value)
      [] c.tool = "read_range_values" -> _read_range(b, c.sheet_name, c.address)
      [] c.tool = "write_range_values" ->
            _write_range(b, c.sheet_name, c.address, c.values_json, xl_ragged)
      [] c.tool = "get_sheet_names" -> _get_sheet_names(b)
      [] c.tool = "clear_range_content" -> _clear_range(b, c.sheet_name, c.address)

(***************************************************************************)
(* safe_excel_operation, one step per statement                             *)
(***************************************************************************)
Variants == {"excel_agnet", "backend_service"}

ToolCall(variant, tool, sheet_name, address, value, values_json) ==
    [variant |-> variant, tool |-> tool, sheet_name |-> sheet_name,
     address |-> address, value |-> value, values_json |-> values_json]

\* The calls the agent of program v can make of the six tools, and the
\* fault-injected func.
CallsOf(v) ==
    {ToolCall(v, t, sh, a, NoArg, NoArg) :
        t \in {"read_cell_value", "read_range_values", "clear_range_content"},
        sh \in SheetArgs, a \in AddressArgs}
    \cup {ToolCall(v, "write_cell_value", sh, a, x, NoArg) :
        sh \in SheetArgs, a \in AddressArgs, x \in ValueArgs}
    \cup {ToolCall(v, "write_range_values", sh, a, NoArg, js) :
        sh \in SheetArgs, a \in AddressArgs, js \in PayloadArgs}
    \cup {ToolCall(v, "get_sheet_names", NoArg, NoArg, NoArg, NoArg)}
    \cup {ToolCall(v, FaultTool, NoArg, NoArg, NoArg, NoArg)}

\* Before the first call: only the program that runs (the variant) is fixed.
NoCall(v) == ToolCall(v, NoArg, NoArg, NoArg, NoArg, NoArg)

Raise(type, msg) == [t |-> type, msg |-> msg]

\* Mutant: the status is taken from the text func returned.
SuccessValueByOutcome(variant, text) ==
    IF variant = "excel_agnet" THEN [t |-> "str", text |-> text]
    ELSE IF text[1] \in {"Error: Sheet '", "Error reading cell ", "Error writing to cell ",
                         "Error reading range ", "Error clearing range ",
                         "An Excel error occurred during write range to "}
            \/ text \in {<<"Error: The 'values_json' argument must be a valid JSON string representing a list of lists.">>,
                          <<"Error: The 'values_json' argument is not a valid JSON string.">>}
    THEN [t |-> "dict", status |-> "error", message |-> text]
    ELSE [t |-> "dict", status |-> "success", result |-> text]

\* return result  /  return {"status": "success", "result": result}
SuccessValue(variant, text) ==
    IF variant = "excel_agnet" THEN [t |-> "str", text |-> text]
    ELSE [t |-> "dict", status |-> "success", result |-> text]

\* return f"..."  /  return {"status": "error", "message": f"..."}
ErrorValue(variant, text) ==
    IF variant = "excel_agnet" THEN [t |-> "str", text |-> text]
    ELSE [t |-> "dict", status |-> "error", message |-> text]

FileNotFoundText == <<"Excel file not found: ", EXCEL_FILE_PATH>>

Idle == pc \in {"idle", "returned"}

\* A tool is called: safe_excel_operation starts with app = None, book = None.
\* exists: whether the file is at EXCEL_FILE_PATH while this call runs.
Call(c, exists) ==
    /\ Idle
    /\ appsHeld < MaxApps
    /\ pc' = "app"
    /\ inv' = c
    /\ app' = FALSE
    /\ book' = PyNone
    /\ bookOpen' = FALSE
    /\ exc' = PyNone
    /\ opResult' = PyNone
    /\ retval' = PyNone
    /\ events' = <<>>
    /\ writes' = 0
    /\ pathExists' = exists
    /\ UNCHANGED <<file, appsHeld>>
    /\ UNCHANGED dvars
    /\ UNCHANGED xvars

\* The agent calls one of the tools of the running program.
CallTool == \E c \in CallsOf(inv.variant), exists \in BOOLEAN : Call(c, exists)

\* app = xw.App(visible=False, add_book=False)
AppStart ==
    /\ pc = "app"
    /\ \/ /\ app' = TRUE
          /\ appsHeld' = appsHeld + 1
          /\ pc' = "exists"
          /\ exc' = exc
       \/ /\ exc' = Raise("Exception", <<XlError>>)
          /\ pc' = "except"
          /\ UNCHANGED <<app, appsHeld>>
    /\ UNCHANGED <<inv, book, bookOpen, opResult, retval, events, writes, file, pathExists>>
    /\ UNCHANGED dvars
    /\ UNCHANGED xvars

\* Mutant: the existence check is left out.
ExistsCheckSkipped ==
    /\ pc = "exists"
    /\ pc' = "open"
    /\ UNCHANGED <<inv, app, book, bookOpen, exc, opResult, retval, events, writes, file,
                   pathExists, appsHeld>>
    /\ UNCHANGED dvars
    /\ UNCHANGED xvars

\* if not os.path.exists(EXCEL_FILE_PATH): raise FileNotFoundError(...)
ExistsCheck ==
    /\ pc = "exists"
    /\ IF pathExists
       THEN pc' = "open" /\ exc' = exc
       ELSE pc' = "except" /\ exc' = Raise("FileNotFoundError", FileNotFoundText)
    /\ UNCHANGED <<inv, app, book, bookOpen, opResult, retval, events, writes, file,
                   pathExists, appsHeld>>
    /\ UNCHANGED dvars
    /\ UNCHANGED xvars

\* book = app.books.open(EXCEL_FILE_PATH)
Open ==
    /\ pc = "open"
    /\ \/ /\ book' = [t |-> "Book", wb |-> file]
          /\ bookOpen' = TRUE
          /\ events' = Append(events, "open")
          /\ pc' = "op"
          /\ exc' = exc
       \/ /\ exc' = Raise("Exception", <<XlError>>)
          /\ events' = Append(events, "open_raised")
          /\ pc' = "except"
          /\ UNCHANGED <<book, bookOpen>>
    /\ UNCHANGED <<inv, app, opResult, retval, writes, file, pathExists, appsHeld>>
    /\ UNCHANGED dvars
    /\ UNCHANGED xvars

\* result = func(book=book, **kwargs_from_tool)
Op ==
    /\ pc = "op"
    /\ IF inv.tool = FaultTool
       THEN /\ book' = [book EXCEPT !.wb = _fault_injected(book.wb)]
            /\ writes' = writes + 1
            /\ exc' = Raise("Exception", FaultText)
            /\ events' = Append(events, "op_raised")
            /\ pc' = "except"
            /\ opResult' = opResult
       ELSE \E xl_ragged \in XlRaggedOutcomes :
              LET r == CallFunc(book.wb, inv, xl_ragged) IN
              /\ book' = [book EXCEPT !.wb = r.book]
              /\ writes' = writes + r.writes
              /\ opResult' = [t |-> "str", text |-> r.res]
              /\ events' = Append(events, "op")
              /\ pc' = "save"
              /\ exc' = exc
    /\ UNCHANGED <<inv, app, bookOpen, retval, file, pathExists, appsHeld>>
    /\ UNCHANGED dvars
    /\ UNCHANGED xvars

\* Mutant: a save that raises is answered by running func again.
SaveRetriesOp ==
    /\ pc = "save"
    /\ \/ /\ file' = book.wb
          /\ events' = Append(events, "save")
          /\ retval' = SuccessValue(inv.variant, opResult.text)
          /\ pc' = "finally"
       \/ /\ events' = Append(events, "save_raised")
          /\ pc' = "op"
          /\ UNCHANGED <<file, retval>>
    /\ UNCHANGED <<inv, app, book, bookOpen, exc, opResult, writes, pathExists, appsHeld>>
    /\ UNCHANGED dvars
    /\ UNCHANGED xvars

\* Mutant: the result is returned without book.save().
SaveLeftOut ==
    /\ pc = "save"
    /\ retval' = SuccessValue(inv.variant, opResult.text)
    /\ pc' = "finally"
    /\ UNCHANGED <<inv, app, book, bookOpen, exc, opResult, events, writes, file,
                   pathExists, appsHeld>>
    /\ UNCHANGED dvars
    /\ UNCHANGED xvars

\* book.save(); return result
Save ==
    /\ pc = "save"
    /\ \/ /\ file' = book.wb
          /\ events' = Append(events, "save")
          /\ retval' = SuccessValue(inv.variant, opResult.text)
          /\ pc' = "finally"
          /\ exc' = exc
       \/ /\ exc' = Raise("Exception", <<XlError>>)
          /\ events' = Append(events, "save_raised")
          /\ pc' = "except"
          /\ UNCHANGED <<file, retval>>
    /\ UNCHANGED <<inv, app, book, bookOpen, opResult, writes, pathExists, appsHeld>>
    /\ UNCHANGED dvars
    /\ UNCHANGED xvars

\* Mutant: there is no `except Exception` clause; what is no
\* FileNotFoundError leaves the function without a return value.
ExceptFileNotFoundOnly ==
    /\ pc = "except"
    /\ retval' = IF exc.t = "FileNotFoundError"
                 THEN ErrorValue(inv.variant, <<"Error: ">> \o exc.msg)
                 ELSE retval
    /\ pc' = "finally"
    /\ UNCHANGED <<inv, app, book, bookOpen, exc, opResult, events, writes, file,
                   pathExists, appsHeld>>
    /\ UNCHANGED dvars
    /\ UNCHANGED xvars

\* except FileNotFoundError as e: ...  except Exception as e: ...
Except ==
    /\ pc = "except"
    /\ retval' = IF exc.t = "FileNotFoundError"
                 THEN ErrorValue(inv.variant, <<"Error: ">> \o exc.msg)
                 ELSE ErrorValue(inv.variant, <<"An Excel error occurred: ">> \o exc.msg)
    /\ pc' = "finally"
    /\ UNCHANGED <<inv, app, book, bookOpen, exc, opResult, events, writes, file,
                   pathExists, appsHeld>>
    /\ UNCHANGED dvars
    /\ UNCHANGED xvars

\* Mutant: book.close() sits at the end of the try body, not in finally.
FinallyClosesOnSuccessOnly ==
    /\ pc = "finally"
    /\ IF book.t # "None" /\ exc.t = "None"
       THEN \/ /\ bookOpen' = FALSE
               /\ events' = Append(events, "close")
            \/ /\ bookOpen' \in BOOLEAN
               /\ events' = Append(events, "close_raised")
       ELSE UNCHANGED <<bookOpen, events>>
    /\ appsHeld' = appsHeld
    /\ pc' = "returned"
    /\ UNCHANGED <<inv, app, book, exc, opResult, retval, writes, file, pathExists>>
    /\ UNCHANGED dvars
    /\ UNCHANGED xvars

\* finally: if book: try book.close() except: print;  if app: pass
\* A close() that raises leaves the document open or closed.
Finally ==
    /\ pc = "finally"
    /\ IF book.t # "None"
       THEN \/ /\ bookOpen' = FALSE
               /\ events' = Append(events, "close")
            \/ /\ bookOpen' \in BOOLEAN
               /\ events' = Append(events, "close_raised")
       ELSE UNCHANGED <<bookOpen, events>>
    /\ appsHeld' = appsHeld
    /\ pc' = "returned"
    /\ UNCHANGED <<inv, app, book, exc, opResult, retval, writes, file, pathExists>>
    /\ UNCHANGED dvars
    /\ UNCHANGED xvars

\* No call of safe_excel_operation was made yet by program v.
GuardInit(v) ==
    /\ pc = "idle"
    /\ inv = NoCall(v)
    /\ app = FALSE
    /\ book = PyNone
    /\ bookOpen = FALSE
    /\ exc = PyNone
    /\ opResult = PyNone
    /\ retval = PyNone
    /\ events = <<>>
    /\ writes = 0
    /\ file = NewWorkbook
    /\ pathExists = TRUE
    /\ appsHeld = 0

\* No request was made yet of handle_excel_command.
DelegatedInit ==
    /\ dpc = "idle"
    /\ sources = <<>>
    /\ response = ""
    /\ instruction = PyNone

Requests == {"r1", "r2"}

\* No call ran before the first, no request was accepted, and the main loop
\* of excel_agnet.py was not entered.
ReqIdle ==
    [pc |-> "idle", call |-> NoCall("backend_service"), app |-> FALSE, book |-> PyNone,
     exc |-> PyNone, opResult |-> PyNone, retval |-> PyNone, response |-> PyNone]
CliIdle ==
    [pc |-> "idle", line |-> NoArg, lines |-> 0, invoked |-> 0, total |-> 0,
     printed |-> NoArg]
HistoryInit ==
    /\ prev = PyNone
    /\ creq = [r \in Requests |-> ReqIdle]
    /\ handles = <<>>
    /\ cli = CliIdle

Init == (\E v \in Variants : GuardInit(v)) /\ DelegatedInit /\ HistoryInit

Next ==
    \/ CallTool
    \/ AppStart
    \/ ExistsCheck
    \/ Open
    \/ Op
    \/ Save
    \/ Except
    \/ Finally

Spec == Init /\ [][Next]_vars

(***************************************************************************)
(* Two tool calls in a row on a workbook that may hold data already: the   *)
(* calls of one agent run, each a whole invocation of safe_excel_operation *)
(***************************************************************************)
\* Workbooks test.xlsx may be when the program starts: the new workbook, one
\* with a block of text at Sheet1!A1:B2, one with the sheets in the other
\* order, and the workbook object without sheets that _get_sheet_names
\* provides for.
FilledWorkbook ==
    [NewWorkbook EXCEPT !.cells["Sheet1"] =
        [co \in Coords |->
            CASE co = <<1, 1>> -> "a" [] co = <<1, 2>> -> "b"
              [] co = <<2, 1>> -> "c" [] co = <<2, 2>> -> "d"
              [] OTHER -> None]]
SessionWorkbooks ==
    {NewWorkbook, FilledWorkbook,
     [NewWorkbook EXCEPT !.sheets = <<"Sheet2", "Sheet1">>],
     [NewWorkbook EXCEPT !.sheets = <<>>]}

SessionValues == {"Done", "42", ""}
SessionCalls(v) ==
    {ToolCall(v, "write_cell_value", "Sheet1", "A1", x, NoArg) : x \in SessionValues}
    \cup {ToolCall(v, "read_cell_value", "Sheet1", "A1", NoArg, NoArg)}
    \cup {ToolCall(v, "write_range_values", "Sheet1", "A1", NoArg, js) :
            js \in {JsonRect, JsonRow}}
    \cup {ToolCall(v, t, "Sheet1", a, NoArg, NoArg) :
            t \in {"read_range_values"}, a \in {"A1:B2", "A1:B1"}}
    \cup {ToolCall(v, t, "Sheet1", a, NoArg, NoArg) :
            t \in {"clear_range_content"}, a \in {"A1", "A1:B2"}}
    \cup {ToolCall(v, "get_sheet_names", NoArg, NoArg, NoArg, NoArg)}

\* What is remembered of the call that returned when the next one starts.
Finished ==
    IF pc = "idle" THEN PyNone
    ELSE [t |-> "Call", inv |-> inv, retval |-> retval, opResult |-> opResult,
          saved |-> exc.t = "None", file |-> file]

\* The agent calls the next tool once the last call returned.
SessionCall ==
    \E c \in SessionCalls(inv.variant) :
        /\ Idle
        /\ appsHeld < MaxApps
        /\ prev' = Finished
        /\ pc' = "app"
        /\ inv' = c
        /\ app' = FALSE
        /\ book' = PyNone
        /\ bookOpen' = FALSE
        /\ exc' = PyNone
        /\ opResult' = PyNone
        /\ retval' = PyNone
        /\ events' = <<>>
        /\ writes' = 0
        /\ pathExists' = TRUE
        /\ UNCHANGED <<file, appsHeld>>
        /\ UNCHANGED dvars
        /\ UNCHANGED <<creq, handles, cli>>

\* No call was made yet; test.xlsx is one of the workbooks above.
InitSession ==
    /\ pc = "idle"
    /\ \E v \in Variants : inv = NoCall(v)
    /\ app = FALSE
    /\ book = PyNone
    /\ bookOpen = FALSE
    /\ exc = PyNone
    /\ opResult = PyNone
    /\ retval = PyNone
    /\ events = <<>>
    /\ writes = 0
    /\ file \in SessionWorkbooks
    /\ pathExists = TRUE
    /\ appsHeld = 0
    /\ DelegatedInit
    /\ HistoryInit

NextSession ==
    \/ SessionCall
    \/ AppStart
    \/ ExistsCheck
    \/ Open
    \/ Op
    \/ Save
    \/ Except
    \/ Finally

SpecSession == InitSession /\ [][NextSession]_vars

(***************************************************************************)
(* backend_service.py: requests of /excel-command/ handled at the same     *)
(* time (several workers, or several programs, on the one test.xlsx). Each *)
(* request runs handle_excel_command; the agent it invokes calls tools,    *)
(* each call an invocation of safe_excel_operation with its own locals.    *)
(***************************************************************************)
ConcurrentCalls ==
    {ToolCall("backend_service", "write_cell_value", "Sheet1", a, "Done", NoArg) :
        a \in {"A1", "B2"}}
    \cup {ToolCall("backend_service", "read_cell_value", "Sheet1", "A1", NoArg, NoArg)}

Rest == <<lvars, dvars, prev, cli>>

\* Request r arrives: response = agent_executor.invoke({"input": user_command})
\* is entered.
Accept(r) ==
    /\ creq[r].pc = "idle"
    /\ creq' = [creq EXCEPT ![r] = [ReqIdle EXCEPT !.pc = "resolving"]]
    /\ UNCHANGED <<handles, file, appsHeld>>
    /\ UNCHANGED Rest

\* The agent calls a tool: safe_excel_operation starts with app = None, book = None.
ReqCall(r, c) ==
    /\ creq[r].pc = "resolving"
    /\ appsHeld < MaxApps
    /\ creq' = [creq EXCEPT ![r] = [ReqIdle EXCEPT !.pc = "app", !.call = c]]
    /\ UNCHANGED <<handles, file, appsHeld>>
    /\ UNCHANGED Rest

\* app = xw.App(visible=False, add_book=False)
ReqAppStart(r) ==
    /\ creq[r].pc = "app"
    /\ \/ /\ creq' = [creq EXCEPT ![r].app = TRUE, ![r].pc = "exists"]
          /\ appsHeld' = appsHeld + 1
       \/ /\ creq' = [creq EXCEPT ![r].exc = Raise("Exception", <<XlError>>),
                                    ![r].pc = "except"]
          /\ appsHeld' = appsHeld
    /\ UNCHANGED <<handles, file>>
    /\ UNCHANGED Rest

\* if not os.path.exists(EXCEL_FILE_PATH): raise FileNotFoundError(...)
ReqExistsCheck(r) ==
    /\ creq[r].pc = "exists"
    /\ creq' = IF pathExists
               THEN [creq EXCEPT ![r].pc = "open"]
               ELSE [creq EXCEPT ![r].pc = "except",
                                 ![r].exc = Raise("FileNotFoundError", FileNotFoundText)]
    /\ UNCHANGED <<handles, file, appsHeld>>
    /\ UNCHANGED Rest

\* A document as app.books.open returns it: opened by request r; no func
\* ran on it and no close() was called on it yet.
NewHandle(r) == [opener |-> r, open |-> TRUE, opBy |-> {}, closeBy |-> {}]

\* Mutant: a module-level cache of the open document: a document that is
\* open already is used, whoever opened it.
ReqOpenCached(r) ==
    /\ creq[r].pc = "open"
    /\ IF \E h \in DOMAIN handles : handles[h].open
       THEN /\ \E h \in DOMAIN handles :
                 /\ handles[h].open
                 /\ creq' = [creq EXCEPT ![r].book = [t |-> "Book", id |-> h, wb |-> file],
                                          ![r].pc = "op"]
            /\ handles' = handles
       ELSE /\ handles' = Append(handles, NewHandle(r))
            /\ creq' = [creq EXCEPT
                          ![r].book = [t |-> "Book", id |-> Len(handles) + 1, wb |-> file],
                          ![r].pc = "op"]
    /\ UNCHANGED <<file, appsHeld>>
    /\ UNCHANGED Rest

\* Mutant: the open waits while another invocation has the document open.
ReqOpenLocked(r) ==
    /\ creq[r].pc = "open"
    /\ \A h \in DOMAIN handles : ~handles[h].open
    /\ handles' = Append(handles, NewHandle(r))
    /\ creq' = [creq EXCEPT
                  ![r].book = [t |-> "Book", id |-> Len(handles) + 1, wb |-> file],
                  ![r].pc = "op"]
    /\ UNCHANGED <<file, appsHeld>>
    /\ UNCHANGED Rest

\* book = app.books.open(EXCEL_FILE_PATH): a new document handle, whose
\* content is the file as it is now.
ReqOpen(r) ==
    /\ creq[r].pc = "open"
    /\ \/ /\ handles' = Append(handles, NewHandle(r))
          /\ creq' = [creq EXCEPT
                        ![r].book = [t |-> "Book", id |-> Len(handles) + 1, wb |-> file],
                        ![r].pc = "op"]
       \/ /\ creq' = [creq EXCEPT ![r].exc = Raise("Exception", <<XlError>>),
                                    ![r].pc = "except"]
          /\ handles' = handles
    /\ UNCHANGED <<file, appsHeld>>
    /\ UNCHANGED Rest

\* result = func(book=book, **kwargs_from_tool)
ReqOp(r) ==
    /\ creq[r].pc = "op"
    /\ LET res == CallFunc(creq[r].book.wb, creq[r].call, "raise") IN
       creq' = [creq EXCEPT ![r].book.wb = res.book,
                            ![r].opResult = [t |-> "str", text |-> res.res],
                            ![r].pc = "save"]
    /\ handles' = [handles EXCEPT ![creq[r].book.id].opBy = @ \cup {r}]
    /\ UNCHANGED <<file, appsHeld>>
    /\ UNCHANGED Rest

\* book.save(); return {"status": "success", "result": result}
ReqSave(r) ==
    /\ creq[r].pc = "save"
    /\ \/ /\ file' = creq[r].book.wb
          /\ creq' = [creq EXCEPT
                        ![r].retval = SuccessValue("backend_service", creq[r].opResult.text),
                        ![r].pc = "finally"]
       \/ /\ creq' = [creq EXCEPT ![r].exc = Raise("Exception", <<XlError>>),
                                    ![r].pc = "except"]
          /\ file' = file
    /\ UNCHANGED <<handles, appsHeld>>
    /\ UNCHANGED Rest

\* except FileNotFoundError as e: ...  except Exception as e: ...
ReqExcept(r) ==
    /\ creq[r].pc = "except"
    /\ creq' = [creq EXCEPT
                  ![r].retval =
                      IF creq[r].exc.t = "FileNotFoundError"
                      THEN ErrorValue("backend_service", <<"Error: ">> \o creq[r].exc.msg)
                      ELSE ErrorValue("backend_service",
                                      <<"An Excel error occurred: ">> \o creq[r].exc.msg),
                  ![r].pc = "finally"]
    /\ UNCHANGED <<handles, file, appsHeld>>
    /\ UNCHANGED Rest

\* finally: if book: try book.close() except: print;  if app: pass
\* A close() that raises leaves the document open or closed. The tool
\* returns to the agent with the return value; the locals are gone.
ReqFinally(r) ==
    /\ creq[r].pc = "finally"
    /\ IF creq[r].book.t # "None"
       THEN \E closed \in BOOLEAN :
               handles' = [handles EXCEPT ![creq[r].book.id].open = ~closed,
                                          ![creq[r].book.id].closeBy = @ \cup {r}]
       ELSE handles' = handles
    /\ creq' = [creq EXCEPT ![r] = [ReqIdle EXCEPT !.pc = "resolving",
                                                   !.call = creq[r].call,
                                                   !.retval = creq[r].retval]]
    /\ UNCHANGED <<file, appsHeld>>
    /\ UNCHANGED Rest

\* agent_executor.invoke returns: return {"response": agent_output}
AgentReturns(r) ==
    /\ creq[r].pc = "resolving"
    /\ creq' = [creq EXCEPT ![r].response = [status |-> 200, body |-> "response"],
                            ![r].pc = "responded"]
    /\ UNCHANGED <<handles, file, appsHeld>>
    /\ UNCHANGED Rest

\* agent_executor.invoke raises: raise HTTPException(status_code=500, ...)
AgentFails(r) ==
    /\ creq[r].pc = "resolving"
    /\ creq' = [creq EXCEPT
                  ![r].response = [status |-> 500, body |-> "Backend processing error"],
                  ![r].pc = "responded"]
    /\ UNCHANGED <<handles, file, appsHeld>>
    /\ UNCHANGED Rest

\* The call of the language model inside agent_executor.invoke never
\* returns; invoke is called without a timeout, so the handler stays in it.
AgentHangs(r) ==
    /\ creq[r].pc = "resolving"
    /\ creq' = [creq EXCEPT ![r].pc = "hung"]
    /\ UNCHANGED <<handles, file, appsHeld>>
    /\ UNCHANGED Rest

\* What the handler of request r can do next.
HandlerStep(r) ==
    \/ \E c \in ConcurrentCalls : ReqCall(r, c)
    \/ ReqAppStart(r)
    \/ ReqExistsCheck(r)
    \/ ReqOpen(r)
    \/ ReqOp(r)
    \/ ReqSave(r)
    \/ ReqExcept(r)
    \/ ReqFinally(r)
    \/ AgentReturns(r)
    \/ AgentFails(r)

InitConcurrent == GuardInit("backend_service") /\ DelegatedInit /\ HistoryInit

NextConcurrent ==
    \/ \E r \in Requests : Accept(r)
    \/ \E r \in Requests : HandlerStep(r)
    \/ \E r \in Requests : AgentHangs(r)

SpecConcurrent == InitConcurrent /\ [][NextConcurrent]_vars

(***************************************************************************)
(* excel_agnet.py: the main loop                                            *)
(***************************************************************************)
InputLines == {"exit", "EXIT", "Exit", " exit", "", "   ", "read A1", "list the sheets"}

\* Mutant: the line is compared as it was typed.
lower_left_out(line) == line

\* str.lower() and str.strip() on the lines above.
lower(line) ==
    CASE line = "EXIT" -> "exit"
      [] line = "Exit" -> "exit"
      [] line = "read A1" -> "read a1"
      [] OTHER -> line
strip(line) ==
    CASE line = " exit" -> "exit"
      [] line = "   " -> ""
      [] OTHER -> line

CliRest == <<gvars, dvars, prev, cvars>>

\* The prints before the loop; `while True:` is entered.
EnterLoop ==
    /\ cli.pc = "idle"
    /\ cli' = [cli EXCEPT !.pc = "prompt"]
    /\ UNCHANGED CliRest

\* user_query = input(...); exit: break, then print("Agent stopped.");
\* blank: continue; otherwise agent_executor.invoke is entered.
ReadLine(user_query) ==
    /\ cli.pc = "prompt"
    /\ cli.lines < MaxLines
    /\ cli' = IF lower(user_query) = "exit"
              THEN [cli EXCEPT !.pc = "stopped", !.line = user_query, !.lines = @ + 1,
                               !.invoked = 0, !.printed = "Agent stopped."]
              ELSE IF strip(user_query) = ""
              THEN [cli EXCEPT !.line = user_query, !.lines = @ + 1, !.invoked = 0]
              ELSE [cli EXCEPT !.pc = "invoking", !.line = user_query, !.lines = @ + 1,
                               !.invoked = 1, !.total = @ + 1]
    /\ UNCHANGED CliRest

\* invoke returned: print(response.get('output', ...)); next iteration.
ResolverReturns ==
    /\ cli.pc = "invoking"
    /\ cli' = [cli EXCEPT !.pc = "prompt", !.printed = "Agent Response:"]
    /\ UNCHANGED CliRest

\* invoke raised: except Exception as e: print(...); next iteration.
ResolverRaises ==
    /\ cli.pc = "invoking"
    /\ cli' = [cli EXCEPT !.pc = "prompt",
                          !.printed = "An unexpected error occurred during agent execution"]
    /\ UNCHANGED CliRest

\* The call of the language model inside invoke never returns; invoke is
\* called without a timeout, so the loop stays in it.
ResolverHangs ==
    /\ cli.pc = "invoking"
    /\ cli' = [cli EXCEPT !.pc = "hung"]
    /\ UNCHANGED CliRest

InitCli == GuardInit("excel_agnet") /\ DelegatedInit /\ HistoryInit

NextCli ==
    \/ EnterLoop
    \/ \E user_query \in InputLines : ReadLine(user_query)
    \/ ResolverReturns
    \/ ResolverRaises
    \/ ResolverHangs

SpecCli == InitCli /\ [][NextCli]_vars

(***************************************************************************)
(* backend_service_llamaindex.py.py: the instruction generators            *)
(***************************************************************************)
generate_read_cell_instruction(workbook_name, sheet_name, cell_address) ==
    [action |-> "read_cell", workbook_name |-> workbook_name,
     sheet_name |-> sheet_name, cell_address |-> cell_address]

generate_write_cell_instruction(workbook_name, sheet_name, cell_address, value) ==
    [action |-> "write_cell", workbook_name |-> workbook_name,
     sheet_name |-> sheet_name, cell_address |-> cell_address, value |-> value]

generate_read_range_instruction(workbook_name, sheet_name, range_address) ==
    [action |-> "read_range", workbook_name |-> workbook_name,
     sheet_name |-> sheet_name, range_address |-> range_address]

\* Mutant: the descriptor keeps the argument's name for the parsed rows.
generate_write_range_instruction_renamed(workbook_name, sheet_name, start_cell_address, values_json) ==
    LET parsed == json_loads(values_json) IN
    IF ~parsed.ok
    THEN [action |-> "error",
          message |-> "Error: The provided data for writing range is not a valid JSON string."]
    ELSE IF ~IsListOfLists(parsed.data)
    THEN [action |-> "error",
          message |-> "Error: The provided data for writing range is not a valid JSON list of lists."]
    ELSE [action |-> "write_range", workbook_name |-> workbook_name,
          sheet_name |-> sheet_name, start_cell_address |-> start_cell_address,
          values_json |-> PlainRows(parsed.data)]

generate_write_range_instruction(workbook_name, sheet_name, start_cell_address, values_json) ==
    LET parsed == json_loads(values_json) IN
    IF ~parsed.ok
    THEN [action |-> "error",
          message |-> "Error: The provided data for writing range is not a valid JSON string."]
    ELSE IF ~IsListOfLists(parsed.data)
    THEN [action |-> "error",
          message |-> "Error: The provided data for writing range is not a valid JSON list of lists."]
    ELSE [action |-> "write_range", workbook_name |-> workbook_name,
          sheet_name |-> sheet_name, start_cell_address |-> start_cell_address,
          values |-> PlainRows(parsed.data)]

generate_get_sheet_names_instruction(workbook_name) ==
    [action |-> "get_sheet_names", workbook_name |-> workbook_name]

generate_clear_range_content_instruction(workbook_name, sheet_name, range_address) ==
    [action |-> "clear_range_content", workbook_name |-> workbook_name,
     sheet_name |-> sheet_name, range_address |-> range_address]

generate_inform_user_instruction(message) ==
    [action |-> "inform_user", message |-> message]

generate_create_bar_chart_instruction(workbook_name, sheet_name, data_range, chart_title, destination_cell) ==
    [action |-> "create_bar_chart", workbook_name |-> workbook_name,
     sheet_name |-> sheet_name, data_range |-> data_range,
     chart_title |-> chart_title, destination_cell |-> destination_cell]

generate_write_formula_instruction(workbook_name, sheet_name, cell_address, formula) ==
    [action |-> "write_formula", workbook_name |-> workbook_name,
     sheet_name |-> sheet_name, cell_address |-> cell_address, formula |-> formula]

generate_apply_conditional_formatting_instruction(workbook_name, sheet_name, range_address, condition, format_type) ==
    [action |-> "apply_conditional_formatting", workbook_name |-> workbook_name,
     sheet_name |-> sheet_name, range_address |-> range_address,
     condition |-> condition, format_type |-> format_type]

generate_create_pivot_table_instruction(workbook_name, source_sheet, source_range, dest_sheet, dest_cell, row_field, value_field, function) ==
    [action |-> "create_pivot_table", workbook_name |-> workbook_name,
     source_sheet |-> source_sheet, source_range |-> source_range,
     dest_sheet |-> dest_sheet, dest_cell |-> dest_cell, row_field |-> row_field,
     value_field |-> value_field, function |-> function]

(***************************************************************************)
(* The agent's tool calls: what llamaindex_tools can put into              *)
(* response_obj.sources                                                     *)
(***************************************************************************)
WorkbookArg == "Book1.xlsx"
DelegatedPayloads == {JsonRect, NotJson, JsonFlatList}

\* One call of each tool of llamaindex_tools; the write_range tool with each payload.
ToolOutputs ==
    {generate_read_cell_instruction(WorkbookArg, "Sheet1", "A1"),
     generate_write_cell_instruction(WorkbookArg, "Sheet1", "C1", "Done"),
     generate_read_range_instruction(WorkbookArg, "Sheet1", "A1:B2"),
     generate_get_sheet_names_instruction(WorkbookArg),
     generate_clear_range_content_instruction(WorkbookArg, "Sheet1", "A1:B2"),
     generate_inform_user_instruction("Please name a sheet."),
     generate_create_bar_chart_instruction(WorkbookArg, "Sheet1", "A1:B2", "Sales", "D1"),
     generate_write_formula_instruction(WorkbookArg, "Sheet1", "A3", "=SUM(A1:A2)"),
     generate_apply_conditional_formatting_instruction(WorkbookArg, "Sheet1", "A1:B2",
                                                       "value > 100", "red_fill"),
     generate_create_pivot_table_instruction(WorkbookArg, "Sheet1", "A1:B2", "Sheet2", "A1",
                                             "Category", "Sales", "Sum")}
    \cup {generate_write_range_instruction(WorkbookArg, "Sheet1", "A1", js) :
            js \in DelegatedPayloads}

PyDict(d) == [t |-> "dict", d |-> d]
PyOther == [t |-> "other"]     \* a value that is no dict and not None (a tool call that failed)

\* A source: its raw_output, and its metadata (None, or a dict with 'tool_output').
Source(raw_output, metadata) == [raw_output |-> raw_output, metadata |-> metadata]
Metadata(tool_output) == PyDict([tool_output |-> tool_output])

\* The shapes of a source the extraction is written for: the output in
\* raw_output; a raw_output that is no dict; nothing at all; the output in
\* metadata only; both set, to different outputs.
SourceShapes ==
    {Source(PyDict(d), PyNone) : d \in ToolOutputs}
    \cup {Source(PyOther, PyNone), Source(PyNone, PyNone)}
    \cup {Source(PyDict(generate_inform_user_instruction("Which range do you mean?")), PyNone)}
    \cup {Source(PyNone, Metadata(PyDict(d))) :
            d \in {generate_inform_user_instruction("Please name a sheet."),
                   generate_read_cell_instruction(WorkbookArg, "Sheet1", "A1")}}
    \cup {Source(PyDict(generate_inform_user_instruction("Please name a sheet.")),
                 Metadata(PyDict(generate_get_sheet_names_instruction(WorkbookArg)))),
          Source(PyDict(generate_get_sheet_names_instruction(WorkbookArg)),
                 Metadata(PyDict(generate_inform_user_instruction("Please name a sheet."))))}

ResponseTexts == {"", "I have generated the instruction."}

(***************************************************************************)
(* handle_excel_command: extraction of the instruction                      *)
(***************************************************************************)
\* The tool output of one source: raw_output unless it is None, else
\* metadata['tool_output'] unless that is missing or None.
ToolOutputResult(source) ==
    IF source.raw_output.t # "None" THEN source.raw_output
    ELSE IF /\ source.metadata.t = "dict"
            /\ "tool_output" \in DOMAIN source.metadata.d
            /\ source.metadata.d.tool_output.t # "None"
    THEN source.metadata.d.tool_output
    ELSE PyNone

\* d.get("action")
GetAction(d) == IF "action" \in DOMAIN d THEN d.action ELSE None

\* Mutant: an inform_user descriptor found earlier is not replaced by a later one.
RECURSIVE ExtractLoopKeepsFirst(_, _, _)
ExtractLoopKeepsFirst(srcs, i, extracted) ==
    IF i > Len(srcs) THEN extracted
    ELSE LET tool_output_result == ToolOutputResult(srcs[i]) IN
         IF tool_output_result.t = "dict"
         THEN IF GetAction(tool_output_result.d) # "inform_user"
              THEN tool_output_result
              ELSE ExtractLoopKeepsFirst(srcs, i + 1,
                       IF extracted.t = "dict" THEN extracted ELSE tool_output_result)
         ELSE ExtractLoopKeepsFirst(srcs, i + 1, extracted)

\* for source in response_obj.sources: ... from source i on, with
\* extracted_tool_output = extracted so far.
RECURSIVE ExtractLoop(_, _, _)
ExtractLoop(srcs, i, extracted) ==
    IF i > Len(srcs) THEN extracted
    ELSE LET tool_output_result == ToolOutputResult(srcs[i]) IN
         IF tool_output_result.t = "dict"
         THEN IF GetAction(tool_output_result.d) # "inform_user"
              THEN tool_output_result
              ELSE ExtractLoop(srcs, i + 1, tool_output_result)
         ELSE ExtractLoop(srcs, i + 1, extracted)

\* Python's truth value of extracted_tool_output: None and {} are false.
Truthy(v) == v.t = "dict" /\ DOMAIN v.d # {}

BackendFailedText == "Backend failed to generate a valid instruction."

\* The instruction handle_excel_command returns for a response object.
ExtractInstruction(srcs, text) ==
    LET extracted_tool_output == ExtractLoop(srcs, 1, PyNone) IN
    IF Truthy(extracted_tool_output) THEN extracted_tool_output.d
    ELSE IF text # "" THEN [action |-> "inform_user", message |-> text]
    ELSE [action |-> "error", message |-> BackendFailedText]

\* A request arrives; agent.achat starts.
Request ==
    /\ dpc \in {"idle", "returned", "http_500"}
    /\ dpc' = "achat"
    /\ sources' = <<>>
    /\ response' = ""
    /\ instruction' = PyNone
    /\ UNCHANGED gvars
    /\ UNCHANGED xvars

\* The agent calls one of its tools; the call becomes a source of the response.
AgentCallsTool(source) ==
    /\ dpc = "achat"
    /\ Len(sources) < MaxSources
    /\ sources' = Append(sources, source)
    /\ UNCHANGED <<dpc, response, instruction>>
    /\ UNCHANGED gvars
    /\ UNCHANGED xvars

\* agent.achat returns with the text `text`; the instruction is extracted and returned.
HandleResponse(text) ==
    /\ dpc = "achat"
    /\ response' = text
    /\ instruction' = ExtractInstruction(sources, text)
    /\ dpc' = "returned"
    /\ UNCHANGED sources
    /\ UNCHANGED gvars
    /\ UNCHANGED xvars

\* agent.achat raises: except Exception -> HTTPException(status_code=500).
AgentRaises ==
    /\ dpc = "achat"
    /\ dpc' = "http_500"
    /\ sources' = <<>>
    /\ UNCHANGED <<response, instruction>>
    /\ UNCHANGED gvars
    /\ UNCHANGED xvars

\* The delegated program never calls safe_excel_operation.
InitDelegated == GuardInit("backend_service_llamaindex") /\ DelegatedInit /\ HistoryInit

NextDelegated ==
    \/ Request
    \/ \E source \in SourceShapes : AgentCallsTool(source)
    \/ \E text \in ResponseTexts : HandleResponse(text)
    \/ AgentRaises

SpecDelegated == InitDelegated /\ [][NextDelegated]_vars

(***************************************************************************)
(* Vocabulary of the properties                                             *)
(***************************************************************************)
Returned == pc = "returned"
DocumentOpened == book.t = "Book"
RECURSIVE CountIn(_, _)
CountIn(seq, S) ==
    IF Len(seq) = 0 THEN 0
    ELSE (IF seq[1] \in S THEN 1 ELSE 0) + CountIn(Tail(seq), S)
CloseCalls == CountIn(events, {"close", "close_raised"})
OpCalls == CountIn(events, {"op", "op_raised"})
LastEvent == events[Len(events)]
DocumentNotFoundValue == ErrorValue(inv.variant, <<"Error: ">> \o FileNotFoundText)
ExcelErrorValue == ErrorValue(inv.variant, <<"An Excel error occurred: ", XlError>>)
\* func has returned and nothing was saved yet: `file` is the workbook as opened.
AfterOp == pc = "save"
IsWriteRange == inv.tool = "write_range_values"
PayloadRejected(js) == ~json_loads(js).ok \/ ~IsListOfLists(json_loads(js).data)
PayloadRagged(js) ==
    /\ ~PayloadRejected(js)
    /\ ~IsRectangular(PlainRows(json_loads(js).data))
AddressErrorTexts(c) ==
    {<<w, c.address, " on sheet ", c.sheet_name, ": ", XlError>> :
        w \in {"Error reading cell ", "Error writing to cell ", "Error reading range ",
               "Error clearing range "}}
    \cup {WriteRangeError(c.sheet_name, c.address)}

(***************************************************************************)
(* C1 (as stated): in every invocation that opened the document, the       *)
(* document is closed when the invocation returns.                          *)
(***************************************************************************)
C1_BookClosedOnReturn ==
    Returned /\ DocumentOpened => ~bookOpen

(***************************************************************************)
(* C1 (amended): in every invocation that opened the document,             *)
(* book.close() has been called exactly once, as the last call on the      *)
(* book, when the invocation returns, whether func returned, func raised   *)
(* after writing, or save raised; the document is closed unless close()    *)
(* itself raised.                                                           *)
(***************************************************************************)
C1_CloseCalledOnEveryExit ==
    Returned /\ DocumentOpened =>
        /\ CloseCalls = 1
        /\ LastEvent \in {"close", "close_raised"}
        /\ (bookOpen => LastEvent = "close_raised")

\* func raised after writing a cell, and the document was closed all the same.
C1_Witness ==
    /\ Returned
    /\ inv.tool = FaultTool
    /\ events = <<"open", "op_raised", "close">>
    /\ writes = 1
    /\ book.wb # file
    /\ ~bookOpen

(***************************************************************************)
(* C2: when an invocation has returned, it holds neither the document nor  *)
(* the Excel application it started.                                        *)
(***************************************************************************)
C2_AppAndBookReleased ==
    Returned => appsHeld = 0 /\ ~bookOpen

(***************************************************************************)
(* C3 (as stated): when the path does not exist, the invocation returns    *)
(* the DocumentNotFound result, and neither open, func nor save is called. *)
(***************************************************************************)
C3_MissingPathIsDocumentNotFound ==
    Returned /\ ~pathExists =>
        /\ retval = DocumentNotFoundValue
        /\ ~DocumentOpened
        /\ events = <<>>

(***************************************************************************)
(* C3 (amended): when the path does not exist, neither open, func nor save *)
(* is called and the file is left as it was; the result is DocumentNotFound *)
(* if xw.App() returned, and the generic Excel error if xw.App() raised,   *)
(* which happens before the path is looked at.                              *)
(***************************************************************************)
C3_MissingPathNeverOpens ==
    Returned /\ ~pathExists =>
        /\ ~DocumentOpened
        /\ events = <<>>
        /\ writes = 0
        /\ retval = (IF app THEN DocumentNotFoundValue ELSE ExcelErrorValue)

C3_Witness ==
    /\ Returned
    /\ ~pathExists
    /\ app
    /\ inv.tool = "write_cell_value"
    /\ retval = DocumentNotFoundValue
    /\ events = <<>>

(***************************************************************************)
(* C4: func is called at most once per invocation, only right after a      *)
(* successful open, and exactly once in every invocation that opened the   *)
(* document.                                                                *)
(***************************************************************************)
C4_OpExactlyOnce ==
    /\ OpCalls <= 1
    /\ OpCalls = 1 => Len(events) >= 2 /\ events[1] = "open"
                      /\ events[2] \in {"op", "op_raised"} /\ DocumentOpened
    /\ Returned /\ DocumentOpened => OpCalls = 1
    /\ Returned /\ ~DocumentOpened => OpCalls = 0

\* save raised after func had run: func was not run again.
C4_Witness ==
    /\ Returned
    /\ events = <<"open", "op", "save_raised", "close">>
    /\ OpCalls = 1

(***************************************************************************)
(* C5: when the return statement of the try body is reached, the calls on  *)
(* the book were open, func, save in this order, each once, and the file   *)
(* holds the workbook as func left it; close is called after that, once.   *)
(***************************************************************************)
C5_OpenOpSaveClose ==
    /\ (pc = "finally" /\ exc.t = "None") =>
          events = <<"open", "op", "save">> /\ file = book.wb
    /\ (Returned /\ exc.t = "None") =>
          /\ events \in {<<"open", "op", "save", "close">>,
                         <<"open", "op", "save", "close_raised">>}
          /\ file = book.wb
          /\ retval = SuccessValue(inv.variant, opResult.text)
    /\ (retval # PyNone /\ exc.t = "None") => CountIn(events, {"save"}) = 1

C5_Witness ==
    /\ Returned
    /\ exc.t = "None"
    /\ inv.tool = "write_cell_value"
    /\ writes = 1
    /\ events = <<"open", "op", "save", "close">>
    /\ file # NewWorkbook

(***************************************************************************)
(* C6 (as stated): a WriteRange payload that is not JSON, or not a         *)
(* rectangular array of arrays, yields an error text, changes no cell and  *)
(* attempts no write.                                                       *)
(***************************************************************************)
C6_NonRectangularRejected ==
    (AfterOp /\ IsWriteRange
        /\ (PayloadRejected(inv.values_json) \/ PayloadRagged(inv.values_json))) =>
        /\ opResult.text \in {NotJsonText, NotListOfListsText}
        /\ book.wb = file
        /\ writes = 0

(***************************************************************************)
(* C6 (amended): a WriteRange payload that is not JSON, or is JSON that is *)
(* not a list whose elements are all lists, yields the corresponding error *)
(* text, changes no cell and attempts no write. Row lengths are not        *)
(* checked: a ragged list of lists on an existing sheet and address is     *)
(* assigned to the range.                                                   *)
(***************************************************************************)
C6_NotListOfListsRejected ==
    /\ (AfterOp /\ IsWriteRange /\ PayloadRejected(inv.values_json)) =>
          /\ opResult.text =
                (IF json_loads(inv.values_json).ok THEN NotListOfListsText ELSE NotJsonText)
          /\ book.wb = file
          /\ writes = 0
    /\ (AfterOp /\ IsWriteRange /\ PayloadRagged(inv.values_json)
          /\ inv.sheet_name \in SheetNames(file) /\ ParseAddress(inv.address).ok) =>
          writes = 1

C6_Witness ==
    /\ AfterOp
    /\ IsWriteRange
    /\ inv.values_json = JsonFlatList
    /\ inv.sheet_name = "Sheet1"
    /\ inv.address = "A1"
    /\ opResult.text = NotListOfListsText
    /\ file # NewWorkbook
    /\ book.wb = file

(***************************************************************************)
(* C7: a WriteRange call whose payload is not JSON never starts the        *)
(* application nor opens the document, and returns the invalid-payload     *)
(* text.                                                                    *)
(***************************************************************************)
C7_ValidationBeforeIO ==
    (IsWriteRange /\ ~json_loads(inv.values_json).ok) =>
        /\ ~app
        /\ ~DocumentOpened
        /\ (Returned => retval \in {SuccessValue(inv.variant, NotJsonText),
                                    ErrorValue(inv.variant, NotJsonText)})

(***************************************************************************)
(* C8 (as stated): every tool that takes a sheet name returns the          *)
(* SheetNotFound text when the sheet is not in the workbook, whatever its  *)
(* other arguments.                                                         *)
(***************************************************************************)
C8_MissingSheetIsSheetNotFound ==
    (AfterOp /\ inv.tool \in SheetTools /\ inv.sheet_name \notin SheetNames(book.wb)) =>
        opResult.text = SheetNotFound(inv.sheet_name)

(***************************************************************************)
(* C8 (amended): when the sheet is not in the workbook, every tool that    *)
(* takes a sheet name returns the SheetNotFound text and never an address  *)
(* error, whatever the address; except write_range_values with a payload   *)
(* that is not a JSON list of lists, which returns the payload error,      *)
(* because the payload is checked before the sheet.                         *)
(***************************************************************************)
C8_MissingSheetNeverAddressError ==
    (AfterOp /\ inv.tool \in SheetTools /\ inv.sheet_name \notin SheetNames(book.wb)) =>
        /\ opResult.text \notin AddressErrorTexts(inv)
        /\ opResult.text =
              (IF IsWriteRange /\ PayloadRejected(inv.values_json)
               THEN (IF json_loads(inv.values_json).ok THEN NotListOfListsText
                     ELSE NotJsonText)
               ELSE SheetNotFound(inv.sheet_name))
        /\ book.wb = file
        /\ writes = 0

\* A missing sheet together with text that is no address.
C8_Witness ==
    /\ AfterOp
    /\ inv.tool = "read_cell_value"
    /\ inv.sheet_name = "Ghost"
    /\ inv.address = "A0:"
    /\ opResult.text = SheetNotFound("Ghost")

(***************************************************************************)
(* Vocabulary of the delegated variant's properties                         *)
(***************************************************************************)
\* The ten tags of the wire contract that name a spreadsheet action.
ConcreteTags ==
    {"read_cell", "write_cell", "read_range", "write_range", "get_sheet_names",
     "clear_range_content", "create_bar_chart", "write_formula",
     "apply_conditional_formatting", "create_pivot_table"}
WireTags == ConcreteTags \cup {"inform_user", "error"}

\* The field names the wire contract lists for each tag.
WireFields(tag) ==
    CASE tag = "read_cell" -> {"action", "workbook_name", "sheet_name", "cell_address"}
      [] tag = "write_cell" ->
            {"action", "workbook_name", "sheet_name", "cell_address", "value"}
      [] tag = "read_range" -> {"action", "workbook_name", "sheet_name", "range_address"}
      [] tag = "write_range" ->
            {"action", "workbook_name", "sheet_name", "start_cell_address", "values"}
      [] tag = "get_sheet_names" -> {"action", "workbook_name"}
      [] tag = "clear_range_content" ->
            {"action", "workbook_name", "sheet_name", "range_address"}
      [] tag = "create_bar_chart" ->
            {"action", "workbook_name", "sheet_name", "data_range", "chart_title",
             "destination_cell"}
      [] tag = "write_formula" ->
            {"action", "workbook_name", "sheet_name", "cell_address", "formula"}
      [] tag = "apply_conditional_formatting" ->
            {"action", "workbook_name", "sheet_name", "range_address", "condition",
             "format_type"}
      [] tag = "create_pivot_table" ->
            {"action", "workbook_name", "source_sheet", "source_range", "dest_sheet",
             "dest_cell", "row_field", "value_field", "function"}
      [] tag = "inform_user" -> {"action", "message"}
      [] tag = "error" -> {"action", "message"}
      [] OTHER -> {}

\* Some source of the response carries a descriptor with one of the tags.
SomeSourceHas(tags) ==
    \E i \in DOMAIN sources :
        /\ ToolOutputResult(sources[i]).t = "dict"
        /\ GetAction(ToolOutputResult(sources[i]).d) \in tags

DelegatedReturned == dpc = "returned"

(***************************************************************************)
(* C9: when the sources of a response hold an InformUser descriptor and a  *)
(* concrete-action descriptor, at any positions, the instruction returned  *)
(* is a concrete action.                                                    *)
(***************************************************************************)
C9_ConcreteActionSelected ==
    (DelegatedReturned /\ SomeSourceHas({"inform_user"}) /\ SomeSourceHas(ConcreteTags)) =>
        instruction.action \in ConcreteTags

(***************************************************************************)
(* C10: every instruction handle_excel_command returns carries one of the  *)
(* twelve tags of the wire contract and exactly the fields listed for that *)
(* tag; a write_range descriptor carries the parsed rows as `values`.      *)
(***************************************************************************)
C10_WireContract ==
    DelegatedReturned =>
        /\ "action" \in DOMAIN instruction
        /\ instruction.action \in WireTags
        /\ DOMAIN instruction = WireFields(instruction.action)
        /\ instruction.action = "write_range" =>
              \E js \in DelegatedPayloads :
                  /\ json_loads(js).ok
                  /\ IsListOfLists(json_loads(js).data)
                  /\ instruction.values = PlainRows(json_loads(js).data)

\* The write_range descriptor is taken from the third source, after a failed
\* tool call and an inform_user descriptor found in metadata.
C10_Witness ==
    /\ DelegatedReturned
    /\ Len(sources) = 3
    /\ sources[1] = Source(PyOther, PyNone)
    /\ sources[2].raw_output = PyNone
    /\ instruction.action = "write_range"
    /\ instruction.values = <<(<<"a", "b">>), (<<"c", "d">>)>>

(***************************************************************************)
(* Vocabulary of the claims about two calls in a row                        *)
(***************************************************************************)
\* The call before the running one ran tool t, and what it did was saved.
PrevSaved(t) == prev.t = "Call" /\ prev.inv.tool = t /\ prev.saved
SheetExists == inv.sheet_name \in SheetNames(file)
\* The range of the running call is the extent of a block written at anchor.
SameExtent(anchor, rows) ==
    LET a == ParseAddress(anchor)
        rg == ParseAddress(inv.address) IN
    /\ rg.r1 = a.r1 /\ rg.c1 = a.c1
    /\ rg.r2 = a.r1 + Len(rows) - 1
    /\ rg.c2 = a.c1 + Len(rows[1]) - 1
\* str() of a list of lists of text.
NestedRepr(rows) ==
    ReprList([i \in DOMAIN rows |-> ReprList([j \in DOMAIN rows[i] |-> <<"'", rows[i][j], "'">>])])

(***************************************************************************)
(* C11: write_cell_value(sheet, cell, v) followed by                       *)
(* read_cell_value(sheet, cell), with no call in between, returns v, for   *)
(* every existing sheet, cell and text v; each call is its own             *)
(* open/save/close session.                                                 *)
(***************************************************************************)
C11_WriteCellThenReadCell ==
    /\ AfterOp
    /\ inv.tool = "read_cell_value"
    /\ PrevSaved("write_cell_value")
    /\ prev.inv.sheet_name = inv.sheet_name
    /\ prev.inv.address = inv.address
    /\ SheetExists
    => opResult.text = <<prev.inv.value>>

(***************************************************************************)
(* C12: write_range_values of a rectangular block of text at an anchor     *)
(* followed by read_range_values of the range of the same extent returns   *)
(* the same values as a list of rows, each a list of the row's columns.    *)
(***************************************************************************)
C12_WriteRangeThenReadRange ==
    /\ AfterOp
    /\ inv.tool = "read_range_values"
    /\ PrevSaved("write_range_values")
    /\ prev.inv.sheet_name = inv.sheet_name
    /\ SheetExists
    /\ ~PayloadRejected(prev.inv.values_json)
    /\ ~PayloadRagged(prev.inv.values_json)
    /\ SameExtent(prev.inv.address, PlainRows(json_loads(prev.inv.values_json).data))
    => opResult.text = NestedRepr(PlainRows(json_loads(prev.inv.values_json).data))

(***************************************************************************)
(* C13: clear_range_content is idempotent: when the same range of an       *)
(* existing sheet is cleared by two calls in a row, the workbook after the *)
(* second is the workbook after the first, and the second returns what the *)
(* first returned.                                                          *)
(***************************************************************************)
C13_ClearRangeIdempotent ==
    /\ Returned
    /\ inv.tool = "clear_range_content"
    /\ PrevSaved("clear_range_content")
    /\ prev.inv = inv
    /\ exc.t = "None"
    => /\ file = prev.file
       /\ retval = prev.retval

\* A1 of a sheet with text below it was cleared twice.
C13_Witness ==
    /\ Returned
    /\ inv.tool = "clear_range_content"
    /\ inv.address = "A1"
    /\ PrevSaved("clear_range_content")
    /\ prev.inv = inv
    /\ exc.t = "None"
    /\ events = <<"open", "op", "save", "close">>
    /\ file.cells["Sheet1"][<<1, 1>>] = None
    /\ file.cells["Sheet1"][<<2, 1>>] = "c"

(***************************************************************************)
(* C14: get_sheet_names returns the names of the sheets in the order of    *)
(* the workbook, joined by ", ", for a workbook with at least one sheet,   *)
(* and "No sheets found." for a workbook without sheets.                    *)
(***************************************************************************)
C14_SheetNamesInWorkbookOrder ==
    AfterOp /\ inv.tool = "get_sheet_names" =>
        IF Len(file.sheets) = 0
        THEN opResult.text = <<"No sheets found.">>
        ELSE /\ Len(opResult.text) = 2 * Len(file.sheets) - 1
             /\ \A i \in DOMAIN file.sheets : opResult.text[2 * i - 1] = file.sheets[i]
             /\ \A i \in 1..(Len(file.sheets) - 1) : opResult.text[2 * i] = ", "

\* The workbook lists Sheet2 before Sheet1, and so does the result.
C14_Witness ==
    /\ AfterOp
    /\ inv.tool = "get_sheet_names"
    /\ file.sheets = <<"Sheet2", "Sheet1">>
    /\ opResult.text = <<"Sheet2", ", ", "Sheet1">>

(***************************************************************************)
(* Vocabulary of the claims about result texts                              *)
(***************************************************************************)
\* The text the caller of the tool gets.
ResultText ==
    IF retval.t = "str" THEN retval.text
    ELSE IF retval.status = "success" THEN retval.result
    ELSE retval.message
DocumentNotFoundTexts == {<<"Error: ">> \o FileNotFoundText}
SheetNotFoundTexts == {SheetNotFound(sh) : sh \in SheetArgs}
AllAddressErrorTexts == UNION {AddressErrorTexts(c) : c \in CallsOf(inv.variant)}
\* The three failures, each in a call in which nothing else failed.
ReachesSheetLookup ==
    /\ exc.t = "None"
    /\ inv.tool \in SheetTools
    /\ ~(IsWriteRange /\ PayloadRejected(inv.values_json))
MissingDocument == exc.t = "FileNotFoundError"
MissingSheet == ReachesSheetLookup /\ ~SheetExists
MalformedAddress == ReachesSheetLookup /\ SheetExists /\ ~ParseAddress(inv.address).ok

(***************************************************************************)
(* C15: the result texts of a missing document, a missing sheet and a      *)
(* malformed address on an existing sheet are three different texts for    *)
(* every tool and all arguments: each is the text of its own failure, is   *)
(* none of the texts of the other two, and is not the guard's generic      *)
(* "An Excel error occurred: ..." text.                                     *)
(***************************************************************************)
C15_FailureTextsDistinct ==
    Returned =>
        /\ MissingDocument =>
                /\ ResultText \in DocumentNotFoundTexts
                /\ ResultText \notin SheetNotFoundTexts \cup AllAddressErrorTexts
        /\ MissingSheet =>
                /\ ResultText = SheetNotFound(inv.sheet_name)
                /\ ResultText \notin DocumentNotFoundTexts \cup AllAddressErrorTexts
        /\ MalformedAddress =>
                /\ ResultText \in AddressErrorTexts(inv)
                /\ ResultText \notin DocumentNotFoundTexts \cup SheetNotFoundTexts
        /\ MissingDocument \/ MissingSheet \/ MalformedAddress =>
                ResultText[1] # "An Excel error occurred: "

\* read_range_values of text that is no address, on a sheet that exists.
C15_Witness ==
    /\ Returned
    /\ MalformedAddress
    /\ inv.tool = "read_range_values"
    /\ ResultText = <<"Error reading range ", "A0:", " on sheet ", "Sheet1", ": ", XlError>>

(***************************************************************************)
(* C16: no failure leaves safe_excel_operation as an exception: whether    *)
(* the application start, the existence check, the open, func, the save or *)
(* the close failed, the invocation goes on to its return, and returns a   *)
(* value that carries the message of the failure.                           *)
(***************************************************************************)
C16_FailureReturnsValue ==
    /\ ~Idle => ENABLED (AppStart \/ ExistsCheck \/ Open \/ Op \/ Save \/ Except \/ Finally)
    /\ Returned =>
        /\ retval.t \in {"str", "dict"}
        /\ exc.t = "FileNotFoundError" => ResultText = <<"Error: ">> \o exc.msg
        /\ exc.t = "Exception" => ResultText = <<"An Excel error occurred: ">> \o exc.msg

\* The save raised and then the close raised: the Excel error is returned.
C16_Witness ==
    /\ Returned
    /\ events = <<"open", "op", "save_raised", "close_raised">>
    /\ retval = ExcelErrorValue

(***************************************************************************)
(* Vocabulary of the claims about concurrent requests                       *)
(***************************************************************************)
HasBook(r) == creq[r].book.t = "Book"
WroteCell(r, address) ==
    /\ creq[r].call.tool = "write_cell_value"
    /\ creq[r].call.address = address
    /\ creq[r].retval = SuccessValue("backend_service",
            <<"Successfully wrote '", "Done", "' to cell ", address, " on sheet ", "Sheet1", ".">>)

(***************************************************************************)
(* C17: under every interleaving of the requests, func of an invocation    *)
(* runs on the document that invocation opened and on no other, close() is *)
(* called on a document by the invocation that opened it only, and no two  *)
(* invocations hold the same document: each invocation that reaches func   *)
(* holds a document it opened itself (none is kept from an earlier call),  *)
(* which nobody else has closed.                                            *)
(***************************************************************************)
C17_OwnHandleOnly ==
    /\ \A h \in DOMAIN handles :
          /\ handles[h].opBy \subseteq {handles[h].opener}
          /\ handles[h].closeBy \subseteq {handles[h].opener}
    /\ \A r \in Requests :
          /\ creq[r].pc \in {"app", "exists", "open"} => ~HasBook(r)
          /\ creq[r].pc \in {"op", "save"} =>
                /\ HasBook(r)
                /\ handles[creq[r].book.id].opener = r
                /\ handles[creq[r].book.id].open
                /\ handles[creq[r].book.id].closeBy = {}
    /\ \A r, q \in Requests :
          r # q /\ HasBook(r) /\ HasBook(q) => creq[r].book.id # creq[q].book.id

\* Both requests ran func at the same time, each on its own document.
C17_Witness ==
    /\ creq["r1"].pc = "save"
    /\ creq["r2"].pc = "save"
    /\ creq["r1"].book.id # creq["r2"].book.id
    /\ handles[creq["r1"].book.id].opBy = {"r1"}
    /\ handles[creq["r2"].book.id].opBy = {"r2"}

(***************************************************************************)
(* C18: invocations on the one path are not coordinated: an invocation     *)
(* that has reached app.books.open can open the document whatever the      *)
(* other invocation holds (no lock is taken), so that both hold the        *)
(* document open at once, and a write one of them saved is overwritten by  *)
(* the later save of the other.                                             *)
(***************************************************************************)
C18_OpenNeverWaits ==
    \A r \in Requests :
        creq[r].pc = "open" => ENABLED (ReqOpen(r) /\ creq'[r].pc = "op")

\* Lost update: r1 wrote A1 and r2 wrote B2, both were told of success, and
\* the file holds the write of r2 only.
C18_Witness ==
    /\ WroteCell("r1", "A1")
    /\ WroteCell("r2", "B2")
    /\ creq["r1"].pc = "resolving"
    /\ creq["r2"].pc = "resolving"
    /\ Len(handles) = 2
    /\ file.cells["Sheet1"][<<1, 1>>] = None
    /\ file.cells["Sheet1"][<<2, 2>>] = "Done"

(***************************************************************************)
(* C19: every accepted request yields a response: when the call of the     *)
(* resolver never returns, the handler can still take a step (the          *)
(* timeout) that leads to a response.                                       *)
(***************************************************************************)
C19_ResolverCallTimesOut ==
    \A r \in Requests : creq[r].pc = "hung" => ENABLED HandlerStep(r)

(***************************************************************************)
(* Vocabulary of the claim about the main loop                              *)
(***************************************************************************)
IsExit(line) == line \in {"exit", "EXIT", "Exit"}
IsBlank(line) == line \in {"", "   "}
LineRead == cli.lines > 0

(***************************************************************************)
(* C20: of every line the main loop reads, exactly one holds: the line is  *)
(* `exit` in some letter case, and the loop has stopped without a call of  *)
(* the resolver; the line is empty or white space only, and the loop       *)
(* prompts again without a call of the resolver; or the line was passed to *)
(* the resolver exactly once, and the loop prompts again as soon as the    *)
(* resolver has returned or raised.                                         *)
(***************************************************************************)
C20_ExitBlankOrForwardedOnce ==
    LineRead =>
        /\ IsExit(cli.line) => cli.pc = "stopped" /\ cli.invoked = 0
        /\ IsBlank(cli.line) => cli.pc = "prompt" /\ cli.invoked = 0
        /\ ~IsExit(cli.line) /\ ~IsBlank(cli.line) =>
              /\ cli.invoked = 1
              /\ cli.pc \in {"invoking", "prompt", "hung"}
              /\ cli.pc = "invoking" =>
                    /\ ENABLED (ResolverReturns /\ cli'.pc = "prompt" /\ cli'.total = cli.total)
                    /\ ENABLED (ResolverRaises /\ cli'.pc = "prompt" /\ cli'.total = cli.total)
        /\ cli.total <= cli.lines

\* EXIT in capitals stopped the loop, after a line that went to the resolver.
C20_Witness ==
    /\ cli.pc = "stopped"
    /\ cli.line = "EXIT"
    /\ cli.lines = 2
    /\ cli.total = 1
    /\ cli.invoked = 0

(***************************************************************************)
(* Vocabulary of the claim about the selection loop                         *)
(***************************************************************************)
\* The output of source i: its raw_output when that is not None, else the
\* tool_output of its metadata, when there is one.
OutputOf(i) ==
    IF sources[i].raw_output # PyNone THEN sources[i].raw_output
    ELSE IF sources[i].metadata # PyNone THEN sources[i].metadata.d.tool_output
    ELSE PyNone
DictOutputs == {i \in DOMAIN sources : OutputOf(i).t = "dict"}
PrimaryOutputs == {i \in DictOutputs : OutputOf(i).d.action # "inform_user"}
InformOutputs == {i \in DictOutputs : OutputOf(i).d.action = "inform_user"}
First(S) == CHOOSE i \in S : \A j \in S : i <= j
Last(S) == CHOOSE i \in S : \A j \in S : j <= i

(***************************************************************************)
(* C21: the instruction handle_excel_command returns is the first source   *)
(* output that is a dict whose action is not inform_user; when there is    *)
(* none, the last dict output whose action is inform_user; when no source  *)
(* has a dict output, the inform_user descriptor with the agent's text,    *)
(* when that is not empty, and else the error descriptor "Backend failed   *)
(* to generate a valid instruction.". The output of a source is its        *)
(* raw_output when that is not None, whatever its metadata hold.           *)
(***************************************************************************)
C21_FallbackChain ==
    DelegatedReturned =>
        instruction =
            IF PrimaryOutputs # {} THEN OutputOf(First(PrimaryOutputs)).d
            ELSE IF InformOutputs # {} THEN OutputOf(Last(InformOutputs)).d
            ELSE IF response # "" THEN [action |-> "inform_user", message |-> response]
            ELSE [action |-> "error",
                  message |-> "Backend failed to generate a valid instruction."]

\* Two inform_user descriptors, the first in raw_output beside a
\* get_sheet_names descriptor in metadata, and then a failed tool call: the
\* second inform_user descriptor is returned.
C21_Witness ==
    /\ DelegatedReturned
    /\ Len(sources) = 3
    /\ sources[1] = Source(PyDict(generate_inform_user_instruction("Please name a sheet.")),
                           Metadata(PyDict(generate_get_sheet_names_instruction(WorkbookArg))))
    /\ sources[2] = Source(PyDict(generate_inform_user_instruction("Which range do you mean?")),
                           PyNone)
    /\ sources[3] = Source(PyOther, PyNone)
    /\ instruction = [action |-> "inform_user", message |-> "Which range do you mean?"]

(***************************************************************************)
(* Vocabulary of the claims about what an invocation leaves behind          *)
(***************************************************************************)
ReadTools == {"read_cell_value", "read_range_values", "get_sheet_names"}
InvalidParametersTexts == {NotJsonText, NotListOfListsText}
\* func of a reading tool has returned, or func has returned the text of a
\* missing sheet or of a payload that is refused.
FrameCase(tool, result) ==
    \/ tool \in ReadTools
    \/ result.text \in SheetNotFoundTexts \cup InvalidParametersTexts

(***************************************************************************)
(* C22: read_cell_value, read_range_values and get_sheet_names, and every  *)
(* call that ends in the sheet-not-found text, a refused payload or the    *)
(* file-not-found result, leave every cell value and the sheets of         *)
(* test.xlsx as they were: func hands the workbook to book.save() as it    *)
(* was opened, the save stores just that, and a call on a missing file     *)
(* stores nothing.                                                          *)
(***************************************************************************)
C22_ReadsAndErrorsChangeNothing ==
    [][/\ (pc = "op" /\ pc' = "save" /\ FrameCase(inv.tool, opResult')) =>
              book'.wb = file /\ file' = file
       /\ (pc = "save" /\ FrameCase(inv.tool, opResult)) => file' = file
       /\ (~Idle /\ ~pathExists) => file' = file]_vars

\* read_range_values ran to its save on a workbook with "Done" in A1, which
\* is still there.
C22_Witness ==
    /\ Returned
    /\ inv.tool = "read_range_values"
    /\ inv.address = "A1:B2"
    /\ events = <<"open", "op", "save", "close">>
    /\ file.cells["Sheet1"][<<1, 1>>] = "Done"
    /\ file.cells["Sheet1"][<<2, 2>>] = None

(***************************************************************************)
(* Vocabulary of the claim about the status of backend_service.py          *)
(***************************************************************************)
IsService == inv.variant = "backend_service" /\ inv.tool \in Tools
InvalidPayload == exc.t = "None" /\ IsWriteRange /\ PayloadRejected(inv.values_json)
ErrorOutcomeTexts ==
    SheetNotFoundTexts \cup InvalidParametersTexts \cup AddressErrorTexts(inv)
GuardStepFailed ==
    \/ ~app
    \/ \E i \in DOMAIN events : events[i] \in {"open_raised", "save_raised"}

(***************************************************************************)
(* C23: in backend_service.py the status says whether an exception reached *)
(* the guard and nothing about the outcome of the tool: a call of one of   *)
(* the six tools that ends in a missing sheet, text that is no address or  *)
(* a refused payload is saved and returned as status "success" with the    *)
(* error text as result; status "error" is returned only when the file is  *)
(* missing or the application start, the open or the save raised.          *)
(***************************************************************************)
C23_StatusIsExceptionOnly ==
    Returned /\ IsService =>
        /\ retval.status = "error" <=> exc.t # "None"
        /\ retval.status = "error" =>
              \/ exc.t = "FileNotFoundError" /\ ~pathExists
              \/ exc.t = "Exception" /\ GuardStepFailed
        /\ MissingSheet \/ MalformedAddress \/ InvalidPayload =>
              /\ retval.status = "success"
              /\ retval.result \in ErrorOutcomeTexts
              /\ \E i \in DOMAIN events : events[i] = "save"

\* write_range_values on a sheet that does not exist: saved, status success.
C23_Witness ==
    /\ Returned
    /\ IsService
    /\ IsWriteRange
    /\ MissingSheet
    /\ events = <<"open", "op", "save", "close">>
    /\ retval = [t |-> "dict", status |-> "success", result |-> SheetNotFound("Ghost")]

====
